---- MODULE Spec2Model ----
(***************************************************************************)
(* Task-dispatch middleware (src/middleware/app.py): the Redis assignment  *)
(* queue, the atomic pop-and-lock script, submit, skip, the reconciler     *)
(* (sync_assignment_queue), the Label Studio task pool and the PostgreSQL  *)
(* session ledger.  Every `await` of a handler is one step of its          *)
(* coroutine; code between two awaits runs without interleaving (asyncio). *)
(***************************************************************************)
EXTENDS Integers, Sequences, FiniteSets, TLC

\* ---------------------------------------------------------------- bounds
Tasks == {101, 102}        \* task ids held by Label Studio
Agents == {7, 8}           \* agent ids the callers supply
MaxEvents == 3             \* handler invocations, reconciliations and key
                           \* expiries per behaviour
Procs == {1, 2}            \* request handlers in flight at once

\* ------------------------------------------------------ program constants
None == 0                  \* Python None / absent Redis key
max_attempts == 50         \* app.py:311
K_disable == 5             \* app.py:346
BatchSize == 10            \* app.py:323

\* Label Studio lists its tasks in id order; task 101 carries a duration in
\* its data, task 102 does not (task_details['data'].get('duration') is None).
LSOrder == <<101, 102>>
Duration(t) == IF t = 101 THEN 60 ELSE None

\* len(submission.transcription) of the texts submitted ("hello")
TextLens == {5}

\* X-API-Key of a request: missing (None, auto_error=False), the secret the
\* callers were given, or another value; TZ_SYSTEM_API_KEY: unset (getenv
\* gives None) or that secret
Keys == {None, 1, 2}
Secrets == {None, 1}

\* The service starts on the Redis and PostgreSQL an earlier run left:
\* the first task's skip counter is absent or one below the threshold, and
\* the first agent may still hold the first task (lock, active entry,
\* 'assigned' row).  The process-local state starts empty.
InitSkips == {0, K_disable - 1}
FirstTask == Head(LSOrder)
FirstAgent == CHOOSE a \in Agents : \A b \in Agents : a <= b

VARIABLES
  rqueue,           \* Redis list assignment_queue
  lock,             \* Redis task:locked:{T}  -> agent id, None if absent
  active,           \* Redis agent:active:{A} -> task_data, NoActive if absent
  skipcd,           \* Redis task:skipped:{T}:{A} present
  gskips,           \* Redis task:global_skips:{T}, 0 if absent
  gttl,             \* task:global_skips:{T} has a TTL
  memq,             \* assignment_queue["tasks"]
  syncing,          \* assignment_queue["syncing"]
  completed_tasks,  \* assignment_queue["completed_tasks"]
  stats_cache,      \* stats_cache
  annotations,      \* Label Studio: annotations accepted per task
  sessions,         \* table transcription_sessions, in id order
  agent_stats,      \* table agent_stats
  proc,             \* the request handlers in flight
  bg,               \* the periodic reconciler task
  audit_audio,      \* Redis list audit:audio_access, newest entry first
  secret,           \* TZ_SYSTEM_API_KEY, None if the environment has none
  nevents,          \* invocations, reconciliations and expiries the
                    \* behaviour may still take; below zero: not metered
  resp              \* the response the last step sent, NoResp if none

redisVars == <<rqueue, lock, active, skipcd, gskips, gttl>>
memVars == <<memq, syncing, completed_tasks, stats_cache>>
dbVars == <<sessions, agent_stats>>
vars == <<rqueue, lock, active, skipcd, gskips, gttl, memq, syncing,
          completed_tasks, stats_cache, annotations, sessions, agent_stats,
          proc, bg, audit_audio, secret, nevents, resp>>

\* ---------------------------------------------------------------- values
NoActive == [task_id |-> None, duration |-> None]
NoStats == [exists |-> FALSE, total_tasks_completed |-> 0,
            total_tasks_skipped |-> 0, total_duration_seconds |-> 0,
            total_earnings |-> 0]
NoResp == [op |-> "none", agent |-> None, task |-> None, status |-> None,
           detail |-> "none", duration |-> None]
Idle == [pc |-> "idle", agent |-> None, task |-> None, avail |-> <<>>,
         key |-> None, attempt |-> 0, dur |-> None, n |-> 0, len |-> 0,
         ids |-> {},
         st |-> NoStats,
         fresh |-> <<>>, ret |-> "none", done0 |-> {}]
BgIdle == [pc |-> "idle", fresh |-> <<>>]

Response(op, a, t, status, detail) ==
  [op |-> op, agent |-> a, task |-> t, status |-> status, detail |-> detail,
   duration |-> None]

\* return TaskResponse(**task_data): task_id and duration as in task_data
\* (audio_url is a function of task_id and the agent, metadata is carried
\* like duration)
TaskResponse(a, task_data, detail) ==
  [op |-> "request", agent |-> a, task |-> task_data.task_id, status |-> 200,
   detail |-> detail, duration |-> task_data.duration]

\* ------------------------------------------------------- sequence helpers
InSeq(x, s) == \E i \in 1..Len(s) : s[i] = x
Take(s, k) == SubSeq(s, 1, IF Len(s) < k THEN Len(s) ELSE k)
RECURSIVE Without(_, _)
\* LREM key 0 x : every occurrence of x removed
Without(s, x) ==
  IF s = <<>> THEN <<>>
  ELSE IF Head(s) = x THEN Without(Tail(s), x)
       ELSE <<Head(s)>> \o Without(Tail(s), x)
RECURSIVE RemoveFirst(_, _)
\* list.remove(x) on a list that holds x
RemoveFirst(s, x) ==
  IF s = <<>> THEN <<>>
  ELSE IF Head(s) = x THEN Tail(s)
       ELSE <<Head(s)>> \o RemoveFirst(Tail(s), x)

RECURSIVE TaskList(_)
\* the ids of S in id order
TaskList(S) ==
  IF S = {} THEN <<>>
  ELSE LET m == CHOOSE x \in S : \A y \in S : x <= y
       IN <<m>> \o TaskList(S \ {m})

\* project.get_unlabeled_tasks(): the tasks of the project (those Label
\* Studio keeps annotations for) without annotation, in LS order
Unlabeled ==
  SelectSeq(TaskList(DOMAIN annotations), LAMBDA t : annotations[t] = 0)

\* --------------------------------------------------------------- Init
\* the budget of a behaviour that is not metered
Unmetered == 0 - 1

InitWith(helds, skips, secrets, budget) ==
  \E held \in helds, k \in skips :
    /\ secret \in secrets
    /\ rqueue = <<>>
    /\ lock = [t \in Tasks |-> IF held /\ t = FirstTask THEN FirstAgent
                               ELSE None]
    /\ active = [a \in Agents |->
                   IF held /\ a = FirstAgent
                   THEN [task_id |-> FirstTask, duration |-> Duration(FirstTask)]
                   ELSE NoActive]
    /\ skipcd = [t \in Tasks |-> [a \in Agents |-> FALSE]]
    /\ gskips = [t \in Tasks |-> IF t = FirstTask THEN k ELSE 0]
    /\ gttl = [t \in Tasks |-> t = FirstTask /\ k > 0]
    /\ memq = <<>>
    /\ syncing = FALSE
    /\ completed_tasks = {}
    /\ stats_cache = [total_unlabeled |-> 0, total_locked |-> 0,
                      available |-> 0, last_updated |-> FALSE]
    /\ annotations = [t \in Tasks |-> 0]
    /\ sessions = IF held
                  THEN <<[agent_id |-> FirstAgent, task_id |-> FirstTask,
                          status |-> "assigned",
                          duration_seconds |-> Duration(FirstTask),
                          transcription_length |-> None]>>
                  ELSE <<>>
    /\ agent_stats = [a \in Agents |->
                        IF held /\ a = FirstAgent
                        THEN [NoStats EXCEPT !.exists = TRUE] ELSE NoStats]
    /\ proc = [p \in Procs |-> Idle]
    /\ bg = BgIdle
    /\ audit_audio = <<>>
    /\ nevents = budget
    /\ resp = NoResp

\* the service is configured with its secret
Init == InitWith(BOOLEAN, InitSkips, Secrets \ {None}, MaxEvents)

\* ------------------------------------------------ the pop-and-lock script
\* GET task:global_skips:{T} >= 5
IsDisabled(gs, t) == gs[t] >= K_disable
\* EXISTS task:skipped:{T}:{A}
InCooldown(cd, t, a) == cd[t][a]
\* a SET without NX succeeds on a held lock too
SetAlways(lk, t) == TRUE
\* SET task:locked:{T} A NX EX 3600 succeeds iff the key is absent
SetNX(lk, t) == lk[t] = None

\* a script that puts a task it defers back at the head (LPUSH)
LuaScriptFront(q, lk, cd, gs, a) ==
  IF q = <<>>
  THEN [kind |-> "NONE", task |-> None, queue |-> q, lock |-> lk]
  ELSE LET t == Head(q)
           rest == Tail(q)
       IN IF IsDisabled(gs, t)
          THEN [kind |-> "DISABLED", task |-> t, queue |-> rest, lock |-> lk]
          ELSE IF InCooldown(cd, t, a)
          THEN [kind |-> "SKIPPED", task |-> t, queue |-> <<t>> \o rest,
                lock |-> lk]
          ELSE IF SetNX(lk, t)
          THEN [kind |-> "TASK", task |-> t, queue |-> rest,
                lock |-> [lk EXCEPT ![t] = a]]
          ELSE [kind |-> "LOCKED", task |-> t, queue |-> <<t>> \o rest,
                lock |-> lk]

\* a script that looks at the caller's cooldown before the skip counter
LuaScriptCooldownFirst(q, lk, cd, gs, a) ==
  IF q = <<>>
  THEN [kind |-> "NONE", task |-> None, queue |-> q, lock |-> lk]
  ELSE LET t == Head(q)
           rest == Tail(q)
       IN IF InCooldown(cd, t, a)
          THEN [kind |-> "SKIPPED", task |-> t, queue |-> Append(rest, t),
                lock |-> lk]
          ELSE IF IsDisabled(gs, t)
          THEN [kind |-> "DISABLED", task |-> t, queue |-> rest, lock |-> lk]
          ELSE IF SetNX(lk, t)
          THEN [kind |-> "TASK", task |-> t, queue |-> rest,
                lock |-> [lk EXCEPT ![t] = a]]
          ELSE [kind |-> "LOCKED", task |-> t, queue |-> Append(rest, t),
                lock |-> lk]

\* One EVAL of lua_script for agent a on queue q: the result and the new
\* queue and locks.
LuaScript(q, lk, cd, gs, a) ==
  IF q = <<>>
  THEN [kind |-> "NONE", task |-> None, queue |-> q, lock |-> lk]
  ELSE LET t == Head(q)
           rest == Tail(q)
       IN IF IsDisabled(gs, t)
          THEN [kind |-> "DISABLED", task |-> t, queue |-> rest, lock |-> lk]
          ELSE IF InCooldown(cd, t, a)
          THEN [kind |-> "SKIPPED", task |-> t, queue |-> Append(rest, t),
                lock |-> lk]
          ELSE IF SetNX(lk, t)
          THEN [kind |-> "TASK", task |-> t, queue |-> rest,
                lock |-> [lk EXCEPT ![t] = a]]
          ELSE [kind |-> "LOCKED", task |-> t, queue |-> Append(rest, t),
                lock |-> lk]

\* ------------------------------------------------------------ the budget
\* One invocation, reconciliation or key expiry more: a metered behaviour
\* takes as many as its budget, a behaviour that is not metered any number.
Tick ==
  IF nevents < 0 THEN UNCHANGED nevents
  ELSE /\ nevents > 0
       /\ nevents' = nevents - 1

\* ------------------------------------------------------------ reconciler
\* the fetched ids, completed or not
FreshIdsUnfiltered(tasks) == tasks
\* fresh_task_ids: the ids of the fetched tasks that are not in
\* completed_tasks
FreshIds(tasks) == SelectSeq(tasks, LAMBDA t : t \notin completed_tasks)

\* locked_count over the ids of the list l
LockedCount(l) == Cardinality({i \in 1..Len(l) : lock[l[i]] # None})

\* stats_cache once a reconciliation has rebuilt the queue from list l
StatsAfterSync(l) ==
  [total_unlabeled |-> Len(l), total_locked |-> LockedCount(l),
   available |-> Len(l) - LockedCount(l), last_updated |-> TRUE]

\* a guard left set
GuardKept == TRUE
\* finally: assignment_queue["syncing"] = False
GuardReleased == FALSE

\* a guard that is never found set
GuardIgnored(sy) == FALSE
\* if assignment_queue["syncing"]: return
GuardSet(sy) == sy

\* sync_assignment_queue() called by a background task (startup, the
\* periodic loop, a create_task of the count or reset endpoint), up to
\* `await run_in_executor(get_unlabeled_tasks)`: a call that finds the guard
\* set returns at once and changes nothing; otherwise the guard is set and
\* Label Studio is asked for its unlabeled tasks (bg.fresh: its answer).
BgFetch ==
  /\ Tick
  /\ IF GuardSet(syncing)
     THEN UNCHANGED <<syncing, bg>>
     ELSE /\ bg.pc = "idle"
          /\ syncing' = TRUE
          /\ bg' = [pc |-> "sy_fetch", fresh |-> Unlabeled]
  /\ resp' = NoResp
  /\ UNCHANGED <<redisVars, memq, completed_tasks, stats_cache, annotations,
                 dbVars, proc>>
  /\ UNCHANGED <<secret, audit_audio>>

\* the fetch returns: the list is filtered by completed_tasks as it is now
\* and the pipeline is queued, up to `await pipe.execute()`
BgFilter ==
  /\ bg.pc = "sy_fetch"
  /\ bg' = [pc |-> "sy_exec", fresh |-> FreshIds(bg.fresh)]
  /\ resp' = NoResp
  /\ UNCHANGED <<redisVars, memVars, annotations, dbVars, proc, nevents>>
  /\ UNCHANGED <<secret, audit_audio>>

\* the fetch raises: the except clause logs "Failed to sync assignment
\* queue", finally releases the guard
BgFetchFail ==
  /\ bg.pc = "sy_fetch"
  /\ syncing' = GuardReleased
  /\ bg' = BgIdle
  /\ resp' = Response("sync", None, None, None, "fetch_failed")
  /\ UNCHANGED <<redisVars, memq, completed_tasks, stats_cache, annotations,
                 dbVars, proc, nevents>>
  /\ UNCHANGED <<secret, audit_audio>>

\* await pipe.execute(): DELETE assignment_queue, RPUSH each id (MULTI/EXEC);
\* the memory queue and the stats are replaced (the EXISTS task:locked loop
\* only reads); "Assignment queue synced" is logged; finally syncing = False
BgExec ==
  /\ bg.pc = "sy_exec"
  /\ rqueue' = bg.fresh
  /\ memq' = bg.fresh
  /\ stats_cache' = StatsAfterSync(bg.fresh)
  /\ syncing' = GuardReleased
  /\ bg' = BgIdle
  /\ resp' = Response("sync", None, None, None, "synced")
  /\ UNCHANGED <<lock, active, skipcd, gskips, gttl, completed_tasks,
                 annotations, dbVars, proc, nevents>>
  /\ UNCHANGED <<secret, audit_audio>>

\* ---------------------------------------------------------- request_task
\* A new invocation takes the lowest free handler slot.
FreeSlot(p) ==
  /\ proc[p].pc = "idle"
  /\ \A q \in Procs : q < p => proc[q].pc # "idle"
CanCall(p) == FreeSlot(p)

FirstProc == CHOOSE p \in Procs : \A q \in Procs : p <= q

\* verify_tz_system: not (api_key != TZ_SYSTEM_API_KEY)
VerifyTzSystem(key) == ~(key # secret)

\* request_task_for_agent once sync_assignment_queue() has returned to it
\* with memory queue m: the handler's new state, the guard and the response.
\* tasksSeen: the direct project.get_unlabeled_tasks() returned tasks.
AfterSync(p, m, tasksSeen) ==
  LET me == proc[p] IN
  IF m # <<>>
  THEN [proc |-> [Idle EXCEPT !.pc = "rq_llen", !.agent = me.agent,
                              !.key = me.key, !.avail = m,
                              !.done0 = me.done0],
        syncing |-> GuardReleased, resp |-> NoResp]
  ELSE IF me.ret = "rq_sync1" /\ tasksSeen
  THEN [proc |-> [Idle EXCEPT !.pc = "sy_fetch", !.agent = me.agent,
                              !.key = me.key, !.ret = "rq_sync2",
                              !.fresh = Unlabeled, !.done0 = me.done0],
        syncing |-> TRUE, resp |-> NoResp]
  ELSE [proc |-> Idle, syncing |-> GuardReleased,
        resp |-> Response("request", me.agent, None, 404, "empty")]

\* a reply that drops the stored duration
StoredTaskNoDuration(task_data) == [task_data EXCEPT !.duration = None]
\* task_data = json.loads(active_task)
StoredTask(task_data) == task_data

\* GET agent:active:{A}; an active task is returned as stored.  Otherwise
\* the memory queue is copied; when it is empty the handler reconciles
\* (a reconciliation in flight makes that call, the direct check and the
\* forced resync return at once, ending in the 404).
RequestGet(p, a, key) ==
  /\ CanCall(p)
  /\ VerifyTzSystem(key)
  /\ Tick
  /\ IF active[a].task_id # None
     THEN /\ resp' = TaskResponse(a, StoredTask(active[a]), "active")
          /\ UNCHANGED <<proc, syncing>>
     ELSE IF memq # <<>>
     THEN /\ proc' = [proc EXCEPT ![p] = [Idle EXCEPT !.pc = "rq_llen",
                                            !.agent = a, !.key = key,
                                            !.avail = memq,
                                            !.done0 = completed_tasks]]
          /\ resp' = NoResp
          /\ UNCHANGED syncing
     ELSE IF GuardSet(syncing)
     THEN /\ resp' = Response("request", a, None, 404, "empty")
          /\ UNCHANGED <<proc, syncing>>
     ELSE /\ proc' = [proc EXCEPT ![p] = [Idle EXCEPT !.pc = "sy_fetch",
                                            !.agent = a, !.key = key,
                                            !.ret = "rq_sync1",
                                            !.fresh = Unlabeled,
                                            !.done0 = completed_tasks]]
          /\ syncing' = TRUE
          /\ resp' = NoResp
  /\ UNCHANGED <<redisVars, memq, completed_tasks, stats_cache, annotations,
                 dbVars, bg>>
  /\ UNCHANGED <<secret, audit_audio>>

\* sync_assignment_queue() awaited by the handler: the fetch returns, the
\* list is filtered and the pipeline queued
ProcFilter(p) ==
  /\ proc[p].pc = "sy_fetch"
  /\ proc' = [proc EXCEPT ![p].pc = "sy_exec",
                          ![p].fresh = FreshIds(proc[p].fresh)]
  /\ resp' = NoResp
  /\ UNCHANGED <<redisVars, memVars, annotations, dbVars, bg, nevents>>
  /\ UNCHANGED <<secret, audit_audio>>

\* the fetch raises while Label Studio is down: logged, guard released; the
\* handler goes on with the memory queue as it is, its direct
\* get_unlabeled_tasks() raises as well (logged)
ProcFetchFail(p) ==
  /\ proc[p].pc = "sy_fetch"
  /\ LET r == AfterSync(p, memq, FALSE) IN
     /\ proc' = [proc EXCEPT ![p] = r.proc]
     /\ syncing' = r.syncing
     /\ resp' = r.resp
  /\ UNCHANGED <<redisVars, memq, completed_tasks, stats_cache, annotations,
                 dbVars, bg, nevents>>
  /\ UNCHANGED <<secret, audit_audio>>

\* the pipeline, the memory queue, the stats, the guard; then the handler
\* goes on
ProcExec(p) ==
  /\ proc[p].pc = "sy_exec"
  /\ rqueue' = proc[p].fresh
  /\ memq' = proc[p].fresh
  /\ stats_cache' = StatsAfterSync(proc[p].fresh)
  /\ LET r == AfterSync(p, proc[p].fresh, Unlabeled # <<>>) IN
     /\ proc' = [proc EXCEPT ![p] = r.proc]
     /\ syncing' = r.syncing
     /\ resp' = r.resp
  /\ UNCHANGED <<lock, active, skipcd, gskips, gttl, completed_tasks,
                 annotations, dbVars, bg, nevents>>
  /\ UNCHANGED <<secret, audit_audio>>

RECURSIVE RefillRemove(_, _)
\* assignment_queue["tasks"].remove(id) for each id of the batch, in order;
\* list.remove raises ValueError on an id the list does not hold
RefillRemove(ids, mem) ==
  IF ids = <<>> THEN [ok |-> TRUE, mem |-> mem]
  ELSE IF ~InSeq(Head(ids), mem) THEN [ok |-> FALSE, mem |-> mem]
  ELSE RefillRemove(Tail(ids), RemoveFirst(mem, Head(ids)))

\* await llen("assignment_queue"); on 0 the batch of the handler's copy is
\* queued on a pipeline and removed from the memory queue
RqLlen(p) ==
  /\ proc[p].pc = "rq_llen"
  /\ IF Len(rqueue) = 0
     THEN LET r == RefillRemove(Take(proc[p].avail, BatchSize), memq) IN
          /\ memq' = r.mem
          /\ IF r.ok
             THEN /\ proc' = [proc EXCEPT ![p].pc = "rq_push"]
                  /\ resp' = NoResp
             ELSE /\ proc' = [proc EXCEPT ![p] = Idle]
                  /\ resp' = Response("request", proc[p].agent, None, 500,
                                      "error")
     ELSE /\ proc' = [proc EXCEPT ![p].pc = "rq_script"]
          /\ resp' = NoResp
          /\ UNCHANGED memq
  /\ UNCHANGED <<redisVars, syncing, completed_tasks, stats_cache, annotations,
                 dbVars, bg, nevents>>
  /\ UNCHANGED <<secret, audit_audio>>

\* await pipeline.execute(): the batch is right-pushed
RqPush(p) ==
  /\ proc[p].pc = "rq_push"
  /\ rqueue' = rqueue \o Take(proc[p].avail, BatchSize)
  /\ proc' = [proc EXCEPT ![p].pc = "rq_script"]
  /\ resp' = NoResp
  /\ UNCHANGED <<lock, active, skipcd, gskips, gttl, memVars, annotations,
                 dbVars, bg, nevents>>
  /\ UNCHANGED <<secret, audit_audio>>

\* a loop without a limit (while True)
LoopNeverEnds(n) == FALSE
\* for attempt in range(max_attempts): the loop is over after n iterations
LoopEnds(n) == n >= max_attempts

\* await eval(lua_script): None breaks out of the loop, a conflict continues
\* it, both end in the 404 raised after the loop
RqScript(p) ==
  /\ proc[p].pc = "rq_script"
  /\ LET s == LuaScript(rqueue, lock, skipcd, gskips, proc[p].agent) IN
     /\ rqueue' = s.queue
     /\ lock' = s.lock
     /\ IF s.kind = "TASK"
        THEN /\ proc' = [proc EXCEPT ![p].pc = "rq_meta", ![p].task = s.task]
             /\ resp' = NoResp
        ELSE IF s.kind = "NONE" \/ LoopEnds(proc[p].attempt + 1)
        THEN /\ proc' = [proc EXCEPT ![p] = Idle]
             /\ resp' = Response("request", proc[p].agent, None, 404,
                                 "exhausted")
        ELSE /\ proc' = [proc EXCEPT ![p].pc = "rq_llen",
                                     ![p].attempt = proc[p].attempt + 1]
             /\ resp' = NoResp
  /\ UNCHANGED <<active, skipcd, gskips, gttl, memVars, annotations, dbVars,
                 bg, nevents>>
  /\ UNCHANGED <<secret, audit_audio>>

\* await httpx_client.get(task): duration and metadata from the task's data
RqMeta(p) ==
  /\ proc[p].pc = "rq_meta"
  /\ proc' = [proc EXCEPT ![p].pc = "rq_setex",
                          ![p].dur = Duration(proc[p].task)]
  /\ resp' = NoResp
  /\ UNCHANGED <<redisVars, memVars, annotations, dbVars, bg, nevents>>
  /\ UNCHANGED <<secret, audit_audio>>

\* await setex(agent:active:{A}, 3600, task_data)
RqSetex(p) ==
  /\ proc[p].pc = "rq_setex"
  /\ active' = [active EXCEPT ![proc[p].agent] =
                  [task_id |-> proc[p].task, duration |-> proc[p].dur]]
  /\ proc' = [proc EXCEPT ![p].pc = "rq_insert"]
  /\ resp' = NoResp
  /\ UNCHANGED <<rqueue, lock, skipcd, gskips, gttl, memVars, annotations,
                 dbVars, bg, nevents>>
  /\ UNCHANGED <<secret, audit_audio>>

\* db.add(TranscriptionSession(status='assigned')); await db.commit()
RqInsert(p) ==
  /\ proc[p].pc = "rq_insert"
  /\ sessions' = Append(sessions,
        [agent_id |-> proc[p].agent, task_id |-> proc[p].task,
         status |-> "assigned", duration_seconds |-> proc[p].dur,
         transcription_length |-> None])
  /\ proc' = [proc EXCEPT ![p].pc = "rq_stats"]
  /\ resp' = NoResp
  /\ UNCHANGED <<redisVars, memVars, annotations, agent_stats, bg, nevents>>
  /\ UNCHANGED <<secret, audit_audio>>

\* the AgentStats row is created when absent; last_active; await db.commit()
RqStats(p) ==
  /\ proc[p].pc = "rq_stats"
  /\ agent_stats' = [agent_stats EXCEPT ![proc[p].agent].exists = TRUE]
  /\ proc' = [proc EXCEPT ![p].pc = "rq_audit"]
  /\ resp' = NoResp
  /\ UNCHANGED <<redisVars, memVars, annotations, sessions, bg, nevents>>
  /\ UNCHANGED <<secret, audit_audio>>

\* await lpush(audit:assignments); return TaskResponse(**task_data)
RqAudit(p) ==
  /\ proc[p].pc = "rq_audit"
  /\ resp' = TaskResponse(proc[p].agent,
                          [task_id |-> proc[p].task, duration |-> proc[p].dur],
                          "assigned")
  /\ proc' = [proc EXCEPT ![p] = Idle]
  /\ UNCHANGED <<redisVars, memVars, annotations, dbVars, bg, nevents>>
  /\ UNCHANGED <<secret, audit_audio>>


\* ---------------------------------------------------- submit_transcription
\* a check that only asks for some lock on the task
MaySubmitAnyLock(lk, t, a) == lk[t] # None
\* not (locked_by is None or int(locked_by) != submission.agent_id)
MaySubmit(lk, t, a) == lk[t] # None /\ lk[t] = a

\* the ids of the 'assigned' rows of (a, t)
AssignedIds(a, t) ==
  {i \in 1..Len(sessions) : /\ sessions[i].agent_id = a
                            /\ sessions[i].task_id = t
                            /\ sessions[i].status = "assigned"}

\* `session` after the for loop: the last row selected
LastOf(ids) == CHOOSE i \in ids : \A j \in ids : j <= i

\* a flip that leaves transcription_length as it is
FlipStatusOnly(rows, ids, st, len) ==
  [i \in 1..Len(rows) |->
     IF i \in ids THEN [rows[i] EXCEPT !.status = st] ELSE rows[i]]
\* a commit that writes nothing
FlipNothing(rows, ids, st, len) == rows
\* the rows ids flipped to status st with transcription_length len
Flip(rows, ids, st, len) ==
  [i \in 1..Len(rows) |->
     IF i \in ids
     THEN [rows[i] EXCEPT !.status = st, !.transcription_length = len]
     ELSE rows[i]]

\* GET task:locked:{T}; 403 unless the caller holds the lock
SubmitGet(p, a, t, len, key) ==
  /\ CanCall(p)
  /\ VerifyTzSystem(key)
  /\ Tick
  /\ IF MaySubmit(lock, t, a)
     THEN /\ proc' = [proc EXCEPT ![p] = [Idle EXCEPT !.pc = "sb_post",
                                            !.agent = a, !.task = t,
                                            !.key = key, !.len = len]]
          /\ resp' = NoResp
     ELSE /\ resp' = Response("submit", a, t, 403, "forbidden")
          /\ UNCHANGED proc
  /\ UNCHANGED <<redisVars, memVars, annotations, dbVars, bg>>
  /\ UNCHANGED <<secret, audit_audio>>

\* a handler that takes every answer of Label Studio for a success
AcceptedAny(status) == TRUE
\* not (response.status_code not in [200, 201])
Accepted(status) == status \in {200, 201}

\* POST /api/tasks/{T}/annotations answered with `status`: Label Studio
\* stores the annotation iff it answers 2xx; the handler goes on iff the
\* status is accepted, else raises, and the except clause answers 500
SbPostSt(p, status) ==
  /\ proc[p].pc = "sb_post"
  /\ annotations' = IF status \in 200..299
                    THEN [annotations EXCEPT ![proc[p].task] = @ + 1]
                    ELSE annotations
  /\ IF Accepted(status)
     THEN /\ proc' = [proc EXCEPT ![p].pc = "sb_select"]
          /\ resp' = NoResp
     ELSE /\ proc' = [proc EXCEPT ![p] = Idle]
          /\ resp' = Response("submit", proc[p].agent, proc[p].task, 500,
                              "upstream")
  /\ UNCHANGED <<redisVars, memVars, dbVars, bg, nevents>>
  /\ UNCHANGED <<secret, audit_audio>>

\* Label Studio answers 201 Created
SbPost(p) == SbPostSt(p, 201)
\* Label Studio answers 500
SbPostFail(p) == SbPostSt(p, 500)

\* select the 'assigned' rows and the AgentStats row; no row: no ledger write
SbSelect(p) ==
  /\ proc[p].pc = "sb_select"
  /\ LET ids == AssignedIds(proc[p].agent, proc[p].task) IN
     proc' = [proc EXCEPT ![p].pc = IF ids = {} THEN "sb_del_lock"
                                    ELSE "sb_commit",
                          ![p].ids = ids,
                          ![p].st = agent_stats[proc[p].agent]]
  /\ resp' = NoResp
  /\ UNCHANGED <<redisVars, memVars, annotations, dbVars, bg, nevents>>
  /\ UNCHANGED <<secret, audit_audio>>

\* the aggregate is bumped only `if agent_stats and session.duration_seconds`
CountsCompletion(st, d) == st.exists /\ d # None

\* await db.commit(): the rows become 'completed'; the aggregate columns the
\* handler changed are written with the values it computed from its read.
\* total_earnings is kept in units of 1/6000 (duration / 60 * 0.45).
SbCommit(p) ==
  /\ proc[p].pc = "sb_commit"
  /\ LET me == proc[p]
         d == sessions[LastOf(me.ids)].duration_seconds
     IN /\ sessions' = Flip(sessions, me.ids, "completed", me.len)
        /\ agent_stats' =
             IF CountsCompletion(me.st, d)
             THEN [agent_stats EXCEPT
                     ![me.agent].total_duration_seconds =
                         me.st.total_duration_seconds + d,
                     ![me.agent].total_tasks_completed =
                         me.st.total_tasks_completed + 1,
                     ![me.agent].total_earnings =
                         me.st.total_earnings + d * 45]
             ELSE agent_stats
  /\ proc' = [proc EXCEPT ![p].pc = "sb_del_lock", ![p].ids = {},
                          ![p].st = NoStats]
  /\ resp' = NoResp
  /\ UNCHANGED <<redisVars, memVars, annotations, bg, nevents>>
  /\ UNCHANGED <<secret, audit_audio>>

\* await delete(task:locked:{T})
SbDelLock(p) ==
  /\ proc[p].pc = "sb_del_lock"
  /\ lock' = [lock EXCEPT ![proc[p].task] = None]
  /\ proc' = [proc EXCEPT ![p].pc = "sb_del_active", ![p].ids = {},
                          ![p].st = NoStats]
  /\ resp' = NoResp
  /\ UNCHANGED <<rqueue, active, skipcd, gskips, gttl, memVars, annotations,
                 dbVars, bg, nevents>>
  /\ UNCHANGED <<secret, audit_audio>>

\* await delete(agent:active:{A})
SbDelActive(p) ==
  /\ proc[p].pc = "sb_del_active"
  /\ active' = [active EXCEPT ![proc[p].agent] = NoActive]
  /\ proc' = [proc EXCEPT ![p].pc = "sb_audit"]
  /\ resp' = NoResp
  /\ UNCHANGED <<rqueue, lock, skipcd, gskips, gttl, memVars, annotations,
                 dbVars, bg, nevents>>
  /\ UNCHANGED <<secret, audit_audio>>

\* await lpush(audit:completions); remove_task_from_queue starts: the id
\* leaves the memory queue
SbAudit(p) ==
  /\ proc[p].pc = "sb_audit"
  /\ memq' = IF InSeq(proc[p].task, memq)
             THEN RemoveFirst(memq, proc[p].task) ELSE memq
  /\ proc' = [proc EXCEPT ![p].pc = "sb_lrem"]
  /\ resp' = NoResp
  /\ UNCHANGED <<redisVars, syncing, completed_tasks, stats_cache, annotations,
                 dbVars, bg, nevents>>
  /\ UNCHANGED <<secret, audit_audio>>

\* await lrem(assignment_queue, 0, T); completed_tasks.add(T); stats; 200
SbLrem(p) ==
  /\ proc[p].pc = "sb_lrem"
  /\ rqueue' = Without(rqueue, proc[p].task)
  /\ completed_tasks' = completed_tasks \cup {proc[p].task}
  /\ stats_cache' =
       [stats_cache EXCEPT
          !.total_unlabeled = IF @ > 0 THEN @ - 1 ELSE 0,
          !.available = Len(memq)]
  /\ resp' = Response("submit", proc[p].agent, proc[p].task, 200, "success")
  /\ proc' = [proc EXCEPT ![p] = Idle]
  /\ UNCHANGED <<lock, active, skipcd, gskips, gttl, memq, syncing,
                 annotations, dbVars, bg, nevents>>
  /\ UNCHANGED <<secret, audit_audio>>

\* ---------------------------------------------------------------- skip_task
\* a check that only asks for some lock on the task
MaySkipAnyLock(lk, t, a) == lk[t] # None
\* not (locked_by is None or int(locked_by) != skip_data.agent_id)
MaySkip(lk, t, a) == lk[t] # None /\ lk[t] = a

\* the rows ids with status 'skipped' (and skip_reason), the other columns
\* as they are
FlipSkipped(rows, ids) ==
  [i \in 1..Len(rows) |->
     IF i \in ids THEN [rows[i] EXCEPT !.status = "skipped"] ELSE rows[i]]

\* GET task:locked:{T}; 403 unless the caller holds the lock
SkipGet(p, a, t, key) ==
  /\ CanCall(p)
  /\ VerifyTzSystem(key)
  /\ Tick
  /\ IF MaySkip(lock, t, a)
     THEN /\ proc' = [proc EXCEPT ![p] = [Idle EXCEPT !.pc = "sk_setex",
                                            !.agent = a, !.task = t,
                                            !.key = key]]
          /\ resp' = NoResp
     ELSE /\ resp' = Response("skip", a, t, 403, "forbidden")
          /\ UNCHANGED proc
  /\ UNCHANGED <<redisVars, memVars, annotations, dbVars, bg>>
  /\ UNCHANGED <<secret, audit_audio>>

\* await setex(task:skipped:{T}:{A}, 1800, "skipped")
SkSetex(p) ==
  /\ proc[p].pc = "sk_setex"
  /\ skipcd' = [skipcd EXCEPT ![proc[p].task][proc[p].agent] = TRUE]
  /\ proc' = [proc EXCEPT ![p].pc = "sk_incr"]
  /\ resp' = NoResp
  /\ UNCHANGED <<rqueue, lock, active, gskips, gttl, memVars, annotations,
                 dbVars, bg, nevents>>
  /\ UNCHANGED <<secret, audit_audio>>

\* await incr(task:global_skips:{T}): a key INCR creates has no TTL
SkIncr(p) ==
  /\ proc[p].pc = "sk_incr"
  /\ gskips' = [gskips EXCEPT ![proc[p].task] = @ + 1]
  /\ proc' = [proc EXCEPT ![p].n = gskips[proc[p].task] + 1,
                          ![p].pc = IF gskips[proc[p].task] + 1 = 1
                                    THEN "sk_expire" ELSE "sk_select"]
  /\ resp' = NoResp
  /\ UNCHANGED <<rqueue, lock, active, skipcd, gttl, memVars, annotations,
                 dbVars, bg, nevents>>
  /\ UNCHANGED <<secret, audit_audio>>

\* await expire(task:global_skips:{T}, 86400), only after an INCR giving 1
SkExpire(p) ==
  /\ proc[p].pc = "sk_expire"
  /\ gttl' = [gttl EXCEPT ![proc[p].task] = gskips[proc[p].task] > 0]
  /\ proc' = [proc EXCEPT ![p].pc = "sk_select"]
  /\ resp' = NoResp
  /\ UNCHANGED <<rqueue, lock, active, skipcd, gskips, memVars, annotations,
                 dbVars, bg, nevents>>
  /\ UNCHANGED <<secret, audit_audio>>

SkSelect(p) ==
  /\ proc[p].pc = "sk_select"
  /\ LET ids == AssignedIds(proc[p].agent, proc[p].task) IN
     proc' = [proc EXCEPT ![p].pc = IF ids = {} THEN "sk_del_lock"
                                    ELSE "sk_commit",
                          ![p].ids = ids,
                          ![p].st = agent_stats[proc[p].agent]]
  /\ resp' = NoResp
  /\ UNCHANGED <<redisVars, memVars, annotations, dbVars, bg, nevents>>
  /\ UNCHANGED <<secret, audit_audio>>

\* await db.commit(): the rows become 'skipped'; total_tasks_skipped is
\* bumped once `if agent_stats`
SkCommit(p) ==
  /\ proc[p].pc = "sk_commit"
  /\ LET me == proc[p] IN
     /\ sessions' = FlipSkipped(sessions, me.ids)
     /\ agent_stats' =
          IF me.st.exists
          THEN [agent_stats EXCEPT ![me.agent].total_tasks_skipped =
                                      me.st.total_tasks_skipped + 1]
          ELSE agent_stats
  /\ proc' = [proc EXCEPT ![p].pc = "sk_del_lock", ![p].ids = {},
                          ![p].st = NoStats]
  /\ resp' = NoResp
  /\ UNCHANGED <<redisVars, memVars, annotations, bg, nevents>>
  /\ UNCHANGED <<secret, audit_audio>>

SkDelLock(p) ==
  /\ proc[p].pc = "sk_del_lock"
  /\ lock' = [lock EXCEPT ![proc[p].task] = None]
  /\ proc' = [proc EXCEPT ![p].pc = "sk_del_active", ![p].ids = {},
                          ![p].st = NoStats]
  /\ resp' = NoResp
  /\ UNCHANGED <<rqueue, active, skipcd, gskips, gttl, memVars, annotations,
                 dbVars, bg, nevents>>
  /\ UNCHANGED <<secret, audit_audio>>

SkDelActive(p) ==
  /\ proc[p].pc = "sk_del_active"
  /\ active' = [active EXCEPT ![proc[p].agent] = NoActive]
  /\ proc' = [proc EXCEPT ![p].pc = "sk_audit"]
  /\ resp' = NoResp
  /\ UNCHANGED <<rqueue, lock, skipcd, gskips, gttl, memVars, annotations,
                 dbVars, bg, nevents>>
  /\ UNCHANGED <<secret, audit_audio>>

\* await lpush(audit:skips); 200
SkAudit(p) ==
  /\ proc[p].pc = "sk_audit"
  /\ resp' = Response("skip", proc[p].agent, proc[p].task, 200, "success")
  /\ proc' = [proc EXCEPT ![p] = Idle]
  /\ UNCHANGED <<redisVars, memVars, annotations, dbVars, bg, nevents>>
  /\ UNCHANGED <<secret, audit_audio>>

\* -------------------------------------------------------------- stream_audio
\* not (locked_by is None or int(locked_by) != agent_id)
MayStream(lk, t, a) == lk[t] # None /\ lk[t] = a

\* What the handler finds after its lock check: the task and its file, or
\* Label Studio does not answer 200 for the task, the task's data has no
\* 'audio', or os.path.exists(file_path) is false.
StreamFinds == {"found", "task_not_found", "no_audio", "not_on_disk"}

\* The handler raises HTTPException(404) for the three failures inside its
\* try block.  HTTPException is an Exception and the block has no
\* `except HTTPException: raise`, so `except Exception` catches it and
\* raises HTTPException(500, detail=str(e)) in its place.
StreamExcept(raised) == 500

\* GET task:locked:{T}; 403 unless the caller holds the lock
StreamGet(p, a, t, key) ==
  /\ CanCall(p)
  /\ VerifyTzSystem(key)
  /\ Tick
  /\ IF MayStream(lock, t, a)
     THEN /\ proc' = [proc EXCEPT ![p] = [Idle EXCEPT !.pc = "st_fetch",
                                            !.agent = a, !.task = t,
                                            !.key = key]]
          /\ resp' = NoResp
     ELSE /\ resp' = Response("stream", a, t, 403, "forbidden")
          /\ UNCHANGED proc
  /\ UNCHANGED <<redisVars, memVars, annotations, dbVars, bg>>
  /\ UNCHANGED <<secret, audit_audio>>

\* await httpx_client.get(task); the audio path, the file on disk and the
\* media type follow without an await
StreamFetch(p, finds) ==
  /\ proc[p].pc = "st_fetch"
  /\ IF finds = "found"
     THEN /\ proc' = [proc EXCEPT ![p].pc = "st_audit"]
          /\ resp' = NoResp
     ELSE /\ proc' = [proc EXCEPT ![p] = Idle]
          /\ resp' = Response("stream", proc[p].agent, proc[p].task,
                              StreamExcept(404), finds)
  /\ UNCHANGED <<redisVars, memVars, annotations, dbVars, bg, nevents>>
  /\ UNCHANGED <<secret, audit_audio>>

\* await lpush(audit:audio_access); return FileResponse (200)
StreamAudit(p) ==
  /\ proc[p].pc = "st_audit"
  /\ audit_audio' = <<[agent_id |-> proc[p].agent, task_id |-> proc[p].task]>>
                      \o audit_audio
  /\ resp' = Response("stream", proc[p].agent, proc[p].task, 200, "served")
  /\ proc' = [proc EXCEPT ![p] = Idle]
  /\ UNCHANGED <<redisVars, memVars, annotations, dbVars, bg, nevents>>
  /\ UNCHANGED secret

\* ------------------------------------------------------ reset_disabled_tasks
\* int(skip_count) >= 2: the counters the reset deletes
ResetThreshold == 2
\* skip_count and int(skip_count) >= 2 (an absent key reads None)
Resettable(gs, t) == gs[t] # None /\ gs[t] >= ResetThreshold

\* The end of the handler after its loop, with reset_count n:
\* `if reset_count > 0: asyncio.create_task(sync_assignment_queue())`, then
\* 200.  The created task runs up to its first await: it returns at once
\* when it finds the guard set, otherwise it sets the guard and fetches.
ResetDone(p, n) ==
  /\ proc' = [proc EXCEPT ![p] = Idle]
  /\ resp' = Response("reset", None, None, 200, "success")
  /\ IF n > 0 /\ ~GuardSet(syncing)
     THEN /\ syncing' = TRUE
          /\ bg' = [pc |-> "sy_fetch", fresh |-> Unlabeled]
     ELSE UNCHANGED <<syncing, bg>>

\* keys = await keys("task:global_skips:*"): the counters that exist now
ResetKeys(p, key) ==
  /\ CanCall(p)
  /\ VerifyTzSystem(key)
  /\ Tick
  /\ LET keys == {t \in Tasks : gskips[t] # None} IN
     IF keys = {}
     THEN /\ resp' = Response("reset", None, None, 200, "success")
          /\ UNCHANGED <<proc, syncing, bg>>
     ELSE /\ proc' = [proc EXCEPT ![p] = [Idle EXCEPT !.pc = "rs_get",
                                            !.key = key, !.ids = keys]]
          /\ resp' = NoResp
          /\ UNCHANGED <<syncing, bg>>
  /\ UNCHANGED <<redisVars, memq, completed_tasks, stats_cache, annotations,
                 dbVars>>
  /\ UNCHANGED <<secret, audit_audio>>

\* skip_count = await get(key) for the next key t of the list (KEYS gives
\* them in no particular order); a counter below the threshold is left alone
ResetGet(p, t) ==
  /\ proc[p].pc = "rs_get"
  /\ t \in proc[p].ids
  /\ IF Resettable(gskips, t)
     THEN /\ proc' = [proc EXCEPT ![p].pc = "rs_del", ![p].task = t]
          /\ resp' = NoResp
          /\ UNCHANGED <<syncing, bg>>
     ELSE IF proc[p].ids = {t}
     THEN ResetDone(p, proc[p].n)
     ELSE /\ proc' = [proc EXCEPT ![p].ids = @ \ {t}]
          /\ resp' = NoResp
          /\ UNCHANGED <<syncing, bg>>
  /\ UNCHANGED <<redisVars, memq, completed_tasks, stats_cache, annotations,
                 dbVars, nevents>>
  /\ UNCHANGED <<secret, audit_audio>>

\* await delete(key); reset_count += 1
ResetDel(p) ==
  /\ proc[p].pc = "rs_del"
  /\ gskips' = [gskips EXCEPT ![proc[p].task] = None]
  /\ gttl' = [gttl EXCEPT ![proc[p].task] = FALSE]
  /\ IF proc[p].ids = {proc[p].task}
     THEN ResetDone(p, proc[p].n + 1)
     ELSE /\ proc' = [proc EXCEPT ![p].pc = "rs_get", ![p].task = None,
                                  ![p].ids = @ \ {proc[p].task},
                                  ![p].n = @ + 1]
          /\ resp' = NoResp
          /\ UNCHANGED <<syncing, bg>>
  /\ UNCHANGED <<rqueue, lock, active, skipcd, memq, completed_tasks,
                 stats_cache, annotations, dbVars, nevents>>
  /\ UNCHANGED <<secret, audit_audio>>

\* ------------------------------------------------------------- key expiry
\* A handler runs for far less than the shortest TTL (1800 s): a key does not
\* expire while the handler that wrote it is still in flight.
Acquiring(p, t) ==
  /\ proc[p].pc \in {"rq_meta", "rq_setex", "rq_insert", "rq_stats", "rq_audit"}
  /\ proc[p].task = t
Skipping(p, t) ==
  /\ proc[p].pc \in {"sk_incr", "sk_expire", "sk_select", "sk_commit",
                     "sk_del_lock", "sk_del_active", "sk_audit"}
  /\ proc[p].task = t

\* a lock written without a TTL never expires
LockForever(t) == FALSE /\ UNCHANGED vars
\* task:locked:{T} reaches its TTL (EX 3600)
ExpireLock(t) ==
  /\ Tick
  /\ lock[t] # None
  /\ \A p \in Procs : ~Acquiring(p, t)
  /\ lock' = [lock EXCEPT ![t] = None]
  /\ resp' = NoResp
  /\ UNCHANGED <<rqueue, active, skipcd, gskips, gttl, memVars, annotations,
                 dbVars, proc, bg>>
  /\ UNCHANGED <<secret, audit_audio>>

\* agent:active:{A} reaches its TTL (3600 s, set after the lock of the same
\* assignment, so that lock is gone by then)
ExpireActive(a) ==
  /\ Tick
  /\ active[a].task_id # None
  /\ lock[active[a].task_id] # a
  /\ \A p \in Procs : ~(Acquiring(p, active[a].task_id) /\ proc[p].agent = a)
  /\ active' = [active EXCEPT ![a] = NoActive]
  /\ resp' = NoResp
  /\ UNCHANGED <<rqueue, lock, skipcd, gskips, gttl, memVars, annotations,
                 dbVars, proc, bg>>
  /\ UNCHANGED <<secret, audit_audio>>

\* task:skipped:{T}:{A} reaches its TTL (1800 s)
ExpireSkip(t, a) ==
  /\ Tick
  /\ skipcd[t][a]
  /\ \A p \in Procs : ~(Skipping(p, t) /\ proc[p].agent = a)
  /\ skipcd' = [skipcd EXCEPT ![t][a] = FALSE]
  /\ resp' = NoResp
  /\ UNCHANGED <<rqueue, lock, active, gskips, gttl, memVars, annotations,
                 dbVars, proc, bg>>
  /\ UNCHANGED <<secret, audit_audio>>

\* task:global_skips:{T} reaches its TTL (86400 s), if it has one
ExpireGlobalSkips(t) ==
  /\ Tick
  /\ gskips[t] > 0
  /\ gttl[t]
  /\ \A p \in Procs : ~Skipping(p, t)
  /\ gskips' = [gskips EXCEPT ![t] = 0]
  /\ gttl' = [gttl EXCEPT ![t] = FALSE]
  /\ resp' = NoResp
  /\ UNCHANGED <<rqueue, lock, active, skipcd, memVars, annotations, dbVars,
                 proc, bg>>
  /\ UNCHANGED <<secret, audit_audio>>

\* ------------------------------------------------------------------ Next
Reconcile == BgFetch \/ BgFilter \/ BgExec

RequestTask(p) ==
  \/ \E a \in Agents, key \in Keys : RequestGet(p, a, key)
  \/ ProcFilter(p) \/ ProcExec(p)
  \/ RqLlen(p) \/ RqPush(p) \/ RqScript(p) \/ RqMeta(p) \/ RqSetex(p)
  \/ RqInsert(p) \/ RqStats(p) \/ RqAudit(p)

Submit(p) ==
  \/ \E a \in Agents, t \in Tasks, len \in TextLens, key \in Keys :
       SubmitGet(p, a, t, len, key)
  \/ SbPost(p) \/ SbSelect(p) \/ SbCommit(p) \/ SbDelLock(p)
  \/ SbDelActive(p) \/ SbAudit(p) \/ SbLrem(p)

Skip(p) ==
  \/ \E a \in Agents, t \in Tasks, key \in Keys : SkipGet(p, a, t, key)
  \/ SkSetex(p) \/ SkIncr(p) \/ SkExpire(p) \/ SkSelect(p) \/ SkCommit(p)
  \/ SkDelLock(p) \/ SkDelActive(p) \/ SkAudit(p)

Stream(p) ==
  \/ \E a \in Agents, t \in Tasks, key \in Keys : StreamGet(p, a, t, key)
  \/ \E finds \in StreamFinds : StreamFetch(p, finds)
  \/ StreamAudit(p)

ResetDisabled(p) ==
  \/ \E key \in Keys : ResetKeys(p, key)
  \/ \E t \in Tasks : ResetGet(p, t)
  \/ ResetDel(p)

Expire ==
  \/ \E t \in Tasks : ExpireLock(t)
  \/ \E a \in Agents : ExpireActive(a)
  \/ \E t \in Tasks, a \in Agents : ExpireSkip(t, a)
  \/ \E t \in Tasks : ExpireGlobalSkips(t)

Next ==
  \/ Reconcile
  \/ \E p \in Procs : RequestTask(p)
  \/ \E p \in Procs : Submit(p)
  \/ \E p \in Procs : Skip(p)
  \/ \E p \in Procs : Stream(p)
  \/ \E p \in Procs : ResetDisabled(p)
  \/ Expire

Spec == Init /\ [][Next]_vars

\* -------------------------------------- callers with and without the secret
\* the endpoints behind Security(verify_tz_system) that the dispatch uses
CoreEndpoints == {"request", "submit", "skip", "stream", "count", "disabled",
                  "reset"}

\* verify_tz_system raises HTTPException(403, "Invalid API key") before the
\* handler body runs
Denied(op, key) ==
  /\ Tick
  /\ ~VerifyTzSystem(key)
  /\ resp' = Response(op, None, None, 403, "invalid_key")
  /\ UNCHANGED <<redisVars, memVars, annotations, dbVars, proc, bg, secret,
                 audit_audio>>

\* the secret may be unset; one assignment is held
InitAuth == InitWith({TRUE}, {0}, Secrets, MaxEvents)

NextAuth == Next \/ \E op \in CoreEndpoints, key \in Keys : Denied(op, key)

SpecAuth == InitAuth /\ [][NextAuth]_vars

\* ----------------------------------- Label Studio and PostgreSQL failing
\* the awaits of submit and skip on the ledger: db.execute(select ...) and
\* db.commit()
SbLedgerPcs == {"sb_select", "sb_commit"}
SkLedgerPcs == {"sk_select", "sk_commit"}

\* The pending ledger call of handler p raises.  The handlers have one try
\* block around everything after the ownership check: `except Exception`
\* logs and raises HTTPException(500); the uncommitted changes of the
\* session are dropped, the calls after the ledger write are not made.
LedgerFail(p, pcs, op) ==
  /\ proc[p].pc \in pcs
  /\ proc' = [proc EXCEPT ![p] = Idle]
  /\ resp' = Response(op, proc[p].agent, proc[p].task, 500, "ledger")
  /\ UNCHANGED <<redisVars, memVars, annotations, dbVars, bg, nevents>>
  /\ UNCHANGED <<secret, audit_audio>>

SbLedgerFail(p) == LedgerFail(p, SbLedgerPcs, "submit")
SkLedgerFail(p) == LedgerFail(p, SkLedgerPcs, "skip")

Fault ==
  \/ BgFetchFail
  \/ \E p \in Procs : ProcFetchFail(p)
  \/ \E p \in Procs : SbPostFail(p)
  \/ \E p \in Procs : SbLedgerFail(p)
  \/ \E p \in Procs : SkLedgerFail(p)

NextF == Next \/ Fault

SpecF == Init /\ [][NextF]_vars

\* ------------------------------------------------- one caller at a time
\* The walk-throughs of the dispatch: a call starts when no other call and
\* no reconciliation is in progress, a reconciliation runs between calls, no
\* key reaches its TTL.  The behaviours are not metered.
InitSeq == InitWith(BOOLEAN, InitSkips, Secrets \ {None}, Unmetered)

NextSeq ==
  \/ (\A p \in Procs : proc[p].pc = "idle") /\ Reconcile
  \/ bg.pc = "idle" /\ RequestTask(FirstProc)
  \/ bg.pc = "idle" /\ Submit(FirstProc)
  \/ bg.pc = "idle" /\ Skip(FirstProc)

SpecSeq == InitSeq /\ [][NextSeq]_vars

\* -------------------------------------- Redis failing, one caller at a time
\* the awaits of the three handlers on Redis after their first GET
RqStorePcs == {"rq_llen", "rq_push", "rq_script", "rq_setex", "rq_audit"}
SbStorePcs == {"sb_del_lock", "sb_del_active", "sb_audit", "sb_lrem"}
SkStorePcs == {"sk_setex", "sk_incr", "sk_expire", "sk_del_lock",
               "sk_del_active", "sk_audit"}

\* The pending Redis call of handler p raises (connection lost, timeout):
\* the call has no effect, `except Exception` logs and raises
\* HTTPException(500).  What the handler wrote before stays as it is.
StoreFail(p, pcs, op) ==
  /\ proc[p].pc \in pcs
  /\ proc' = [proc EXCEPT ![p] = Idle]
  /\ resp' = Response(op, proc[p].agent, proc[p].task, 500, "store")
  /\ UNCHANGED <<redisVars, memVars, annotations, dbVars, bg, nevents>>
  /\ UNCHANGED <<secret, audit_audio>>

RqStoreFail(p) == StoreFail(p, RqStorePcs, "request")
SbStoreFail(p) == StoreFail(p, SbStorePcs, "submit")
SkStoreFail(p) == StoreFail(p, SkStorePcs, "skip")

NextSeqF ==
  \/ NextSeq
  \/ bg.pc = "idle" /\ RqStoreFail(FirstProc)
  \/ bg.pc = "idle" /\ SbStoreFail(FirstProc)
  \/ bg.pc = "idle" /\ SkStoreFail(FirstProc)

SpecSeqF == Init /\ [][NextSeqF]_vars

\* ------------------------------------------ requests and reconciliations
\* The queue and its writers: the reconciler and concurrent request_task
\* calls, starting with nothing held or skipped, one event more than Spec.
InitQ == InitWith({FALSE}, {0}, Secrets \ {None}, MaxEvents + 1)

NextQ ==
  \/ Reconcile
  \/ \E p \in Procs : RequestTask(p)

SpecQ == InitQ /\ [][NextQ]_vars

\* ------------------------------------------------- an agent that disappears
\* The first agent holds the first task and never calls again; its lock and
\* its ActiveAssignment run into their TTL.  The other agent is one client:
\* it requests tasks and submits what it holds, one call at a time.  The
\* periodic reconciler keeps running.  The behaviours are not metered.
OtherAgent == CHOOSE a \in Agents : a # FirstAgent

InitLive == InitWith({TRUE}, {0}, Secrets \ {None}, Unmetered)

LostLockExpires == lock[FirstTask] = FirstAgent /\ ExpireLock(FirstTask)

OtherCalls(p) ==
  /\ RequestTask(p) \/ Submit(p)
  /\ proc[p].pc = "idle"
  /\ proc'[p].agent # FirstAgent
  /\ resp'.agent # FirstAgent

OtherSteps(p) ==
  /\ RequestTask(p) \/ Submit(p)
  /\ proc[p].pc # "idle"

\* the other agent submits the task it holds
OtherSubmits(p) ==
  /\ OtherCalls(p)
  /\ proc'[p].pc = "sb_post"

\* the other agent asks for a task
OtherRequests(p) ==
  /\ OtherCalls(p)
  /\ proc'[p].pc # "sb_post"
  /\ resp'.op # "submit"

\* the periodic loop finds the guard free and starts a reconciliation
LoopStarts == ~GuardSet(syncing) /\ BgFetch

\* a reconciliation of the periodic loop goes on to its end
LoopGoesOn == BgFilter \/ BgExec

NextLive ==
  \/ LostLockExpires
  \/ ExpireActive(FirstAgent)
  \/ Reconcile
  \/ OtherCalls(FirstProc)
  \/ OtherSteps(FirstProc)

\* Every await returns, every TTL runs out, the periodic loop comes round
\* every 30 s, and the other agent keeps working: it goes on requesting and
\* submits what it holds.
SpecLive ==
  /\ InitLive
  /\ [][NextLive]_vars
  /\ WF_vars(LostLockExpires)
  /\ WF_vars(LoopStarts)
  /\ WF_vars(LoopGoesOn)
  /\ WF_vars(OtherSteps(FirstProc))
  /\ WF_vars(OtherRequests(FirstProc))
  /\ WF_vars(OtherSubmits(FirstProc))

\* ---------------------------------- one caller at a time, keys expiring
\* As SpecSeq, metered, with the keys reaching their TTL between calls.
IdleExpire ==
  /\ \A p \in Procs : proc[p].pc = "idle"
  /\ bg.pc = "idle"
  /\ Expire

InitSeqX == InitWith(BOOLEAN, InitSkips, Secrets \ {None}, MaxEvents + 2)

NextSeqX == NextSeq \/ IdleExpire

SpecSeqX == InitSeqX /\ [][NextSeqX]_vars

\* ------------------------------------------- a project with many tasks
\* A project of max_attempts + 1 tasks, none annotated.  In the last half
\* hour the first agent has been assigned and has skipped every task but the
\* last, one after the other: each has its cooldown for that agent, a skip
\* counter of 1 and a 'skipped' row.  Nothing is locked.  The service has
\* just reconciled: assignment_queue and its mirror list every task.
ManyTasks == FirstTask..(FirstTask + max_attempts)
SkippedTasks == ManyTasks \ {FirstTask + max_attempts}

InitMany ==
  /\ secret \in Secrets \ {None}
  /\ rqueue = TaskList(ManyTasks)
  /\ lock = [t \in ManyTasks |-> None]
  /\ active = [a \in Agents |-> NoActive]
  /\ skipcd = [t \in ManyTasks |->
                [a \in Agents |-> t \in SkippedTasks /\ a = FirstAgent]]
  /\ gskips = [t \in ManyTasks |-> IF t \in SkippedTasks THEN 1 ELSE 0]
  /\ gttl = [t \in ManyTasks |-> t \in SkippedTasks]
  /\ memq = TaskList(ManyTasks)
  /\ syncing = FALSE
  /\ completed_tasks = {}
  /\ stats_cache = [total_unlabeled |-> Cardinality(ManyTasks),
                    total_locked |-> 0,
                    available |-> Cardinality(ManyTasks),
                    last_updated |-> TRUE]
  /\ annotations = [t \in ManyTasks |-> 0]
  /\ sessions = [i \in 1..Cardinality(SkippedTasks) |->
                   [agent_id |-> FirstAgent,
                    task_id |-> TaskList(SkippedTasks)[i],
                    status |-> "skipped",
                    duration_seconds |-> Duration(TaskList(SkippedTasks)[i]),
                    transcription_length |-> None]]
  /\ agent_stats = [a \in Agents |->
                      IF a = FirstAgent
                      THEN [NoStats EXCEPT
                              !.exists = TRUE,
                              !.total_tasks_skipped = Cardinality(SkippedTasks)]
                      ELSE NoStats]
  /\ proc = [p \in Procs |-> Idle]
  /\ bg = BgIdle
  /\ audit_audio = <<>>
  /\ nevents = MaxEvents
  /\ resp = NoResp

\* One request at a time, reconciliations between requests.  The queue never
\* runs empty here, so a request neither reconciles nor refills.
NextMany ==
  \/ (\A p \in Procs : proc[p].pc = "idle") /\ Reconcile
  \/ bg.pc = "idle" /\ \E a \in Agents, key \in Keys :
                          RequestGet(FirstProc, a, key)
  \/ RqLlen(FirstProc) \/ RqScript(FirstProc) \/ RqMeta(FirstProc)
  \/ RqSetex(FirstProc) \/ RqInsert(FirstProc) \/ RqStats(FirstProc)
  \/ RqAudit(FirstProc)

SpecMany == InitMany /\ [][NextMany]_vars

\* ------------------------------------------------- every await returns
\* the awaits of request_task_for_agent after its first GET
RequestPcs == {"sy_fetch", "sy_exec", "rq_llen", "rq_push", "rq_script",
               "rq_meta", "rq_setex", "rq_insert", "rq_stats", "rq_audit"}

\* the pending await of request handler p returns and the handler runs to
\* its next await or to its response
RequestSteps(p) == proc[p].pc \in RequestPcs /\ RequestTask(p)

\* Spec with the event loop resuming every request handler whose await has
\* returned (Redis, Label Studio and PostgreSQL answer)
SpecFair ==
  /\ Init
  /\ [][Next]_vars
  /\ \A p \in Procs : WF_vars(RequestSteps(p))

\* ------------------------------------------- the service killed in a submit
\* the awaits of submit_transcription between the forward to Label Studio
\* and the release of the lock: the two selects, the commit, the DEL
SbForwardedPcs == {"sb_select", "sb_commit", "sb_del_lock"}

\* The process dies while handler p waits in one of those awaits, and is
\* started again.  Redis, PostgreSQL (the transaction not yet committed is
\* rolled back) and Label Studio keep what they have; the module state
\* (assignment_queue, stats_cache) and every coroutine are gone.
\* startup_event awaits sync_assignment_queue() before a request is served:
\* with completed_tasks empty the queue is rebuilt from the unlabeled tasks.
Crash(p) ==
  /\ Tick
  /\ proc[p].pc \in SbForwardedPcs
  /\ rqueue' = Unlabeled
  /\ memq' = Unlabeled
  /\ stats_cache' = StatsAfterSync(Unlabeled)
  /\ syncing' = GuardReleased
  /\ completed_tasks' = {}
  /\ proc' = [q \in Procs |-> Idle]
  /\ bg' = BgIdle
  /\ resp' = Response("crash", proc[p].agent, proc[p].task, None, proc[p].pc)
  /\ UNCHANGED <<lock, active, skipcd, gskips, gttl, annotations, dbVars>>
  /\ UNCHANGED <<secret, audit_audio>>

\* the keys of an assignment whose task has its annotation reach their TTL
\* between calls
LostExpiry ==
  /\ \A p \in Procs : proc[p].pc = "idle"
  /\ bg.pc = "idle"
  /\ \/ \E t \in Tasks : annotations[t] > 0 /\ ExpireLock(t)
     \/ \E a \in Agents : /\ active[a].task_id # None
                           /\ annotations[active[a].task_id] > 0
                           /\ ExpireActive(a)

\* one caller at a time, as in SpecSeq; the behaviours are metered
NextCrash ==
  \/ NextSeq
  \/ Crash(FirstProc)
  \/ LostExpiry

InitCrash == InitWith(BOOLEAN, InitSkips, Secrets \ {None}, MaxEvents + 2)

SpecCrash == InitCrash /\ [][NextCrash]_vars

\* ================================================================ claims
InFlight(p, pcs) == proc[p].pc \in pcs
AcquiredPcs == {"rq_meta", "rq_setex", "rq_insert", "rq_stats", "rq_audit"}
Holds(a) == {t \in Tasks : lock[t] = a}

\* C1: a lock is exclusive under every interleaving of the pop-and-lock
\* script: a held Lock(T) never passes to another agent without a release in
\* between, and a script run hands T out only when T had no lock, leaving
\* Lock(T) = the caller; so of two agents racing for T one gets T and the
\* other a refusal or another task.
C1_LockExclusive ==
  [][ /\ \A t \in Tasks :
           (lock[t] # None /\ lock'[t] # None) => lock'[t] = lock[t]
      /\ \A p \in Procs :
           (proc[p].pc = "rq_script" /\ proc'[p].pc = "rq_meta")
             => /\ lock[proc'[p].task] = None
                /\ lock'[proc'[p].task] = proc[p].agent ]_vars

\* two agents' requests in flight, the second refused the first one's task
\* (LOCKED) and holding the other task
C1_Witness ==
  \E p, q \in Procs :
    /\ proc[p].agent # proc[q].agent
    /\ InFlight(p, AcquiredPcs) /\ InFlight(q, AcquiredPcs)
    /\ proc[p].task # proc[q].task
    /\ proc[q].attempt > 0
    /\ lock[proc[p].task] = proc[p].agent
    /\ lock[proc[q].task] = proc[q].agent

\* C2: no two distinct agents hold a live ActiveAssignment for the same task.
C2_OneActivePerTask ==
  \A a, b \in Agents :
    (a # b /\ active[a].task_id # None) => active[a].task_id # active[b].task_id

\* C3: ActiveAssignment(A) = T implies Lock(T) = A, except while a submit or
\* skip of T by A has deleted the lock and not yet the ActiveAssignment.
C3_ActiveImpliesLock ==
  \A a \in Agents :
    active[a].task_id # None =>
      \/ lock[active[a].task_id] = a
      \/ \E p \in Procs :
           /\ InFlight(p, {"sb_del_active", "sk_del_active"})
           /\ proc[p].agent = a
           /\ proc[p].task = active[a].task_id

\* C4: an agent holds at most one lock at a time.
C4_OneLockPerAgent == \A a \in Agents : Cardinality(Holds(a)) <= 1

\* C5: no request_task(A) answers with T while SkipCooldown(T, A) is live.
C5_NoReturnInCooldown ==
  (resp.op = "request" /\ resp.status = 200) => ~skipcd[resp.task][resp.agent]

\* C6: no request_task answers with T while GlobalSkipCount(T) >= K_disable.
C6_NoReturnWhenDisabled ==
  (resp.op = "request" /\ resp.status = 200) => gskips[resp.task] < K_disable

\* C7: a successful submit leaves T out of assignment_queue, and no
\* request_task that starts after it is handed T: neither by the script
\* (done0 holds the tasks whose submit had returned when the call began) nor
\* from an ActiveAssignment.
C7_NoReturnAfterSubmit ==
  /\ (resp.op = "submit" /\ resp.status = 200) => ~InSeq(resp.task, rqueue)
  /\ \A p \in Procs :
       InFlight(p, AcquiredPcs) => proc[p].task \notin proc[p].done0
  /\ (resp.op = "request" /\ resp.detail = "active")
       => resp.task \notin completed_tasks

\* C8: Label Studio accepts at most one annotation per task.
C8_OneAnnotationPerTask == \A t \in Tasks : annotations[t] <= 1

\* C9: a submit by a caller that does not hold Lock(T) answers 403 and
\* changes nothing; only a holder's submit goes on to Label Studio, and an
\* annotation is only ever created by such a submit.
C9_SubmitByNonHolder ==
  [][ /\ \A p \in Procs :
           (proc[p].pc = "idle" /\ proc'[p].pc = "sb_post")
             => lock[proc'[p].task] = proc'[p].agent
      /\ (resp'.op = "submit" /\ resp'.status = 403)
           => /\ lock[resp'.task] # resp'.agent
              /\ UNCHANGED <<redisVars, memVars, annotations, dbVars, proc>>
      /\ \A t \in Tasks :
           annotations'[t] # annotations[t]
             => \E p \in Procs : /\ proc[p].pc = "sb_post"
                                 /\ proc[p].task = t ]_vars

\* a submit for a task another agent holds was answered 403
C9_Witness ==
  /\ resp.op = "submit" /\ resp.status = 403
  /\ lock[resp.task] # None
  /\ lock[resp.task] # resp.agent

\* C10: a skip by a caller that does not hold Lock(T) answers 403 and changes
\* neither the counters, the cooldowns, the locks, the ActiveAssignments nor
\* the ledger; only a holder's skip goes on.
C10_SkipByNonHolder ==
  [][ /\ \A p \in Procs :
           (proc[p].pc = "idle" /\ proc'[p].pc = "sk_setex")
             => lock[proc'[p].task] = proc'[p].agent
      /\ (resp'.op = "skip" /\ resp'.status = 403)
           => /\ lock[resp'.task] # resp'.agent
              /\ UNCHANGED <<gskips, gttl, skipcd, lock, active, sessions,
                             agent_stats, proc>> ]_vars

\* a skip for a task another agent holds was answered 403
C10_Witness ==
  /\ resp.op = "skip" /\ resp.status = 403
  /\ lock[resp.task] # None
  /\ lock[resp.task] # resp.agent

\* the executions of the reconciliation body in progress (0: a background
\* task, p: the request handler p)
Running ==
  {p \in Procs : proc[p].pc \in {"sy_fetch", "sy_exec"}}
    \cup (IF bg.pc \in {"sy_fetch", "sy_exec"} THEN {0} ELSE {})

\* C11: the reconciler is single-flight: after every step at most one
\* execution of the body is in progress, and a step taken while the guard is
\* set starts no execution: the invocation returns at once, and the request
\* that made it is answered with the queue, its mirror and the guard untouched.
C11_SingleFlight ==
  [][ /\ Cardinality(Running') <= 1
      /\ syncing => Running' \subseteq Running
      /\ (syncing /\ Running' = Running /\ resp'.op = "request"
            /\ resp'.detail = "empty")
           => UNCHANGED <<rqueue, memq, stats_cache, syncing>> ]_vars

\* an on-demand invocation found the guard set by a background
\* reconciliation in progress and returned at once
C11_Witness ==
  /\ bg.pc \in {"sy_fetch", "sy_exec"}
  /\ syncing
  /\ resp.op = "request" /\ resp.detail = "empty"

\* C12: request_task is idempotent while ActiveAssignment(A) lives: a request
\* that finds it goes no further, answers 200 with exactly the stored task_id
\* and duration, and leaves queue, locks, cooldowns, counters, the
\* ActiveAssignments, the memory state and the ledger unchanged.
C12_IdempotentRequest ==
  [][ /\ \A p \in Procs :
           (proc[p].pc = "idle" /\ proc'[p].pc \in {"rq_llen", "sy_fetch"})
             => active[proc'[p].agent].task_id = None
      /\ (resp'.op = "request" /\ resp'.detail = "active")
           => /\ active[resp'.agent].task_id # None
              /\ resp'.status = 200
              /\ resp'.task = active[resp'.agent].task_id
              /\ resp'.duration = active[resp'.agent].duration
              /\ UNCHANGED <<redisVars, memVars, annotations, dbVars, proc,
                             bg>> ]_vars

\* a request was answered from a stored assignment that carries a duration
C12_Witness ==
  /\ resp.op = "request" /\ resp.detail = "active"
  /\ active[resp.agent].task_id = resp.task
  /\ resp.duration # None

\* C13: a submit that Label Studio answers with a non-2xx status answers 500
\* and aborts: the lock, the ActiveAssignment, the session row, the
\* aggregates, completed_tasks and the queue are as before; a submit goes on
\* past the POST only when the annotation was stored.
C13_SubmitUpstreamError ==
  [][ \A p \in Procs :
        proc[p].pc = "sb_post" /\ proc'[p] # proc[p] =>
          IF annotations' = annotations
          THEN /\ resp' = Response("submit", proc[p].agent, proc[p].task, 500,
                                   "upstream")
               /\ proc'[p].pc = "idle"
               /\ UNCHANGED <<redisVars, memVars, dbVars>>
          ELSE proc'[p].pc = "sb_select" ]_vars

\* a holder's submit was answered 500; lock, ActiveAssignment and the
\* 'assigned' row are still there
C13_Witness ==
  /\ resp.op = "submit" /\ resp.status = 500
  /\ lock[resp.task] = resp.agent
  /\ active[resp.agent].task_id = resp.task
  /\ AssignedIds(resp.agent, resp.task) # {}
  /\ resp.task \notin completed_tasks

\* the ledger rows of agent a with status st
RowsOf(a, st) ==
  {i \in 1..Len(sessions) : sessions[i].agent_id = a /\ sessions[i].status = st}

\* C14: for every agent, total_tasks_completed equals the number of its
\* 'completed' rows and total_tasks_skipped the number of its 'skipped' rows.
C14_AggregatesMatchLedger ==
  \A a \in Agents :
    /\ agent_stats[a].total_tasks_completed = Cardinality(RowsOf(a, "completed"))
    /\ agent_stats[a].total_tasks_skipped = Cardinality(RowsOf(a, "skipped"))

\* C15: request_task answers 404 'No tasks available in assignment queue'
\* only when Label Studio has no unlabeled task outside completed_tasks.
C15_EmptyOnlyWhenNoTasks ==
  (resp.op = "request" /\ resp.detail = "empty") => FreshIds(Unlabeled) = <<>>

\* C16: request_task answers 404 'all tasks are locked or recently skipped'
\* only after max_attempts script iterations without a lock; a script result
\* NONE does not lead to that answer.
C16_ExhaustedOnlyAfterMaxAttempts ==
  [][ (resp'.op = "request" /\ resp'.detail = "exhausted")
        => \E p \in Procs : /\ proc[p].pc = "rq_script"
                            /\ proc'[p].pc = "idle"
                            /\ proc[p].attempt + 1 = max_attempts
                            /\ rqueue # <<>> ]_vars

\* C17: a completed reconciliation leaves no task with GlobalSkipCount >=
\* K_disable in assignment_queue.
C17_DisabledNotReenqueued ==
  [][ (Running' # Running /\ Running # {})
        => \A t \in Tasks : InSeq(t, rqueue') => ~IsDisabled(gskips', t) ]_vars

\* the place of task t in Label Studio's order
Pos(t) == CHOOSE i \in 1..Len(LSOrder) : LSOrder[i] = t

\* l holds exactly the tasks of set S, once each, in Label Studio's order
Lists(l, S) ==
  /\ \A t \in Tasks : InSeq(t, l) <=> t \in S
  /\ \A i, j \in 1..Len(l) : i < j => Pos(l[i]) < Pos(l[j])

\* the reconciliation steps of a runner whose state goes from r to r1: the
\* fetch lists the unlabeled tasks, the filter keeps those outside
\* completed_tasks, and the rebuild makes that list the queue and its mirror
\* whatever they were, changes no lock, ActiveAssignment, cooldown or
\* counter, and so leaves a locked task of the list locked and in the queue
ReconcileStep(r, r1) ==
  /\ (r.pc # "sy_fetch" /\ r1.pc = "sy_fetch")
       => Lists(r1.fresh, {t \in Tasks : annotations[t] = 0})
  /\ (r.pc = "sy_fetch" /\ r1.pc = "sy_exec")
       => Lists(r1.fresh, {t \in Tasks : InSeq(t, r.fresh)} \ completed_tasks)
  /\ (r.pc = "sy_exec" /\ r1 # r)
       => /\ rqueue' = r.fresh
          /\ memq' = r.fresh
          /\ UNCHANGED <<lock, active, skipcd, gskips, gttl>>
          /\ \A t \in Tasks :
               (lock[t] # None /\ InSeq(t, r.fresh))
                 => (lock'[t] = lock[t] /\ InSeq(t, rqueue'))

\* C18: a reconciliation fetches the unlabeled task ids, keeps those outside
\* completed_tasks in Label Studio's order, and on completing replaces
\* assignment_queue (and its mirror) by exactly that list, leaving locks,
\* ActiveAssignments, cooldowns and skip counters unchanged.
C18_ReconcileRebuilds ==
  [][ /\ ReconcileStep(bg, bg')
      /\ \A p \in Procs : ReconcileStep(proc[p], proc'[p]) ]_vars

\* a reconciliation has just completed; a completed task was left out and a
\* task locked before the rebuild is in the new queue
C18_Witness ==
  /\ resp.op = "sync" /\ resp.detail = "synced"
  /\ completed_tasks # {}
  /\ \A t \in completed_tasks : ~InSeq(t, rqueue)
  /\ \E t \in Tasks : lock[t] # None /\ InSeq(t, rqueue)
  /\ rqueue = memq
  /\ stats_cache.total_locked = 1

\* the step in which the fetch of a runner (state r to r1) fails
FetchFails(r, r1) == r.pc = "sy_fetch" /\ r1.pc \notin {"sy_fetch", "sy_exec"}

\* C19: when the fetch of the unlabeled list fails during a reconciliation,
\* assignment_queue, its in-memory mirror and the cached stats stay exactly as
\* they were and the syncing guard is released.
C19_FetchFailureLeavesQueue ==
  [][ (FetchFails(bg, bg') \/ \E p \in Procs : FetchFails(proc[p], proc'[p]))
        => /\ UNCHANGED <<rqueue, memq, stats_cache>>
           /\ ~syncing' ]_vars

\* a background reconciliation failed at the fetch; the queue built before
\* is still there and the guard is free
C19_Witness ==
  /\ resp.op = "sync" /\ resp.detail = "fetch_failed"
  /\ rqueue # <<>>
  /\ memq # <<>>
  /\ stats_cache.last_updated
  /\ ~syncing

\* C20: a request to a core endpoint that carries a missing or wrong secret
\* is rejected with 403: no handler is in flight for a request that came
\* without X-API-Key or with a value other than the callers' secret.
C20_NoHandlerWithoutSecret ==
  \A p \in Procs :
    proc[p].pc # "idle" => (proc[p].key # None /\ proc[p].key \in Secrets)


\* the ways a stream request ends with the audio missing
StreamMissing == {"task_not_found", "no_audio", "not_on_disk"}

\* C21: a stream request for (T, A) answers 403 when Lock(T) is absent or
\* another agent's, 404 when the task is unknown to Label Studio, has no
\* audio path or its file is not on disk, and 200, with one entry pushed on
\* audit:audio_access, only when Lock(T) = A at the time of the check.
C21_StreamContract ==
  [][ /\ \A p \in Procs :
           (proc[p].pc = "idle" /\ proc'[p].pc = "st_fetch")
             => lock[proc'[p].task] = proc'[p].agent
      /\ (resp'.op = "stream" /\ resp'.detail = "forbidden")
           => /\ resp'.status = 403
              /\ lock[resp'.task] # resp'.agent
              /\ UNCHANGED <<redisVars, audit_audio, proc>>
      /\ (resp'.op = "stream" /\ resp'.detail \in StreamMissing)
           => resp'.status = 404
      /\ (resp'.op = "stream" /\ resp'.status = 200)
           => /\ \E p \in Procs : /\ proc[p].pc = "st_audit"
                                   /\ proc[p].agent = resp'.agent
                                   /\ proc[p].task = resp'.task
              /\ Len(audit_audio') = Len(audit_audio) + 1
              /\ Head(audit_audio') = [agent_id |-> resp'.agent,
                                       task_id |-> resp'.task]
      /\ audit_audio' # audit_audio
           => resp'.op = "stream" /\ resp'.status = 200 ]_vars


\* C22: reset-disabled deletes every GlobalSkipCount key whatever its value
\* and triggers a reconciliation: when it returns no task has a counter
\* (counters of 1 included), and a reset that deleted a counter leaves a
\* reconciliation in progress.
C22_ResetClearsAll ==
  [][ /\ (resp'.op = "reset" /\ resp'.status = 200)
           => \A t \in Tasks : gskips'[t] = None
      /\ \A p \in Procs :
           (proc[p].pc = "rs_del" /\ proc'[p].pc = "idle") => syncing' ]_vars


\* task t can be handed to agent a: unlabeled, not completed, not disabled,
\* not in a's cooldown, not locked by another agent
Assignable(t, a) ==
  /\ annotations[t] = 0
  /\ t \notin completed_tasks
  /\ ~IsDisabled(gskips, t)
  /\ ~InCooldown(skipcd, t, a)
  /\ lock[t] = None

\* C24: the assign-submit walk-through, one call at a time.  From queue
\* [101, 102] with no locks (and nothing skipped) a request is handed 101,
\* with Lock(101) = the caller and queue [102].  When the submit of (A, T)
\* returns, Lock(T) and ActiveAssignment(A) are gone, T is in completed_tasks
\* and out of the queue, the (A, T) row is 'completed' with
\* transcription_length = len(text), and the aggregate of A counts its first
\* completion of 101 as 1.  With 101 completed and 102 assignable, the next
\* request of A is handed 102.
C24_AssignSubmit ==
  [][ /\ \A p \in Procs :
           ( /\ proc[p].pc = "rq_script"
             /\ rqueue = LSOrder
             /\ \A t \in Tasks : Assignable(t, proc[p].agent) )
             => /\ proc'[p].pc = "rq_meta"
                /\ proc'[p].task = Head(LSOrder)
                /\ lock'[Head(LSOrder)] = proc[p].agent
                /\ rqueue' = Tail(LSOrder)
      /\ \A p \in Procs :
           (proc[p].pc = "sb_lrem" /\ proc'[p] # proc[p])
             => LET a == proc[p].agent
                    t == proc[p].task
                IN /\ resp' = Response("submit", a, t, 200, "success")
                   /\ lock'[t] = None
                   /\ active'[a] = NoActive
                   /\ t \in completed_tasks'
                   /\ ~InSeq(t, rqueue')
                   /\ AssignedIds(a, t) = {}
                   /\ \E i \in RowsOf(a, "completed") :
                        /\ sessions'[i].task_id = t
                        /\ sessions'[i].transcription_length = proc[p].len
                   /\ (t = FirstTask /\ Cardinality(RowsOf(a, "completed")) = 1)
                        => agent_stats'[a].total_tasks_completed = 1
      /\ \A t \in Tasks :
           ( /\ resp'.op = "request"
             /\ completed_tasks = Tasks \ {t}
             /\ Assignable(t, resp'.agent) \/ lock[t] = resp'.agent )
             => resp'.status = 200 /\ resp'.task = t ]_vars

\* agent A has completed 101 (row 'completed' with the text's length,
\* aggregate 1, no lock, no ActiveAssignment left) and its next request has
\* just been handed 102
C24_Witness ==
  /\ resp.op = "request" /\ resp.status = 200 /\ resp.detail = "assigned"
  /\ resp.task = 102
  /\ completed_tasks = {101}
  /\ lock[101] = None /\ lock[102] = resp.agent
  /\ rqueue = <<>>
  /\ agent_stats[resp.agent].total_tasks_completed = 1
  /\ \E i \in RowsOf(resp.agent, "completed") :
       sessions[i].task_id = 101 /\ sessions[i].transcription_length \in TextLens


\* C25: skip keeps the task available to others, one call at a time.  When
\* the skip of (A, T) returns with GlobalSkipCount(T) below K_disable:
\* SkipCooldown(T, A) is set, GlobalSkipCount(T) is the incremented value,
\* Lock(T) and ActiveAssignment(A) are gone and T is in assignment_queue.  No
\* request is handed a task in the caller's cooldown, and a request of an
\* agent that holds nothing, for whom T is the one assignable task, is handed T.
C25_SkipKeepsAvailable ==
  [][ /\ \A p \in Procs :
           ( /\ proc[p].pc = "sk_audit" /\ proc'[p] # proc[p]
             /\ gskips[proc[p].task] < K_disable )
             => LET a == proc[p].agent
                    t == proc[p].task
                IN /\ resp' = Response("skip", a, t, 200, "success")
                   /\ skipcd'[t][a]
                   /\ gskips'[t] = proc[p].n /\ proc[p].n > 0
                   /\ lock'[t] = None
                   /\ active'[a] = NoActive
                   /\ InSeq(t, rqueue')
      /\ (resp'.op = "request" /\ resp'.status = 200)
           => ~skipcd[resp'.task][resp'.agent]
      /\ \A t \in Tasks :
           ( /\ resp'.op = "request"
             /\ Holds(resp'.agent) \subseteq {t}
             /\ Assignable(t, resp'.agent) \/ lock[t] = resp'.agent
             /\ \A u \in Tasks \ {t} : ~Assignable(u, resp'.agent) )
             => resp'.status = 200 /\ resp'.task = t ]_vars


\* C26: a ledger write that fails during a submit (after the annotation was
\* accepted) or during a skip (after the cooldown and the counter were
\* written) does not fail the call: the handler goes on to release Lock(T)
\* and ActiveAssignment(A), and a submit or skip that has passed its
\* ownership check and the upstream POST is never answered with an error.
C26_LedgerFailureStillApplied ==
  [][ \A p \in Procs :
        (proc[p].pc \in SbLedgerPcs \cup SkLedgerPcs /\ proc'[p] # proc[p])
          => /\ proc'[p].pc \in {"sb_commit", "sb_del_lock", "sk_commit",
                                   "sk_del_lock"}
             /\ resp'.status # 500
             /\ UNCHANGED <<lock, active>> ]_vars

\* C27: a Redis call that fails inside request_task, submit or skip answers
\* 500 and leaves nothing written by the call behind.  One call at a time
\* and without expiry, before the first failure a requesting agent without
\* ActiveAssignment holds no lock, a skipping agent has no cooldown on the
\* task it holds and no annotation exists for a task being submitted: after
\* the 500 the request has left no lock, no ActiveAssignment and the mirror
\* equal to the queue's source, the skip no cooldown, the submit no
\* annotation and the lock, the ActiveAssignment and the 'assigned' row.
C27_StoreFailureMutatesNothing ==
  [][ resp'.detail = "store" =>
        LET a == resp'.agent
            t == resp'.task
        IN /\ resp'.status = 500
           /\ resp'.op = "request"
                => /\ \A u \in Tasks : lock'[u] # a
                   /\ active'[a] = NoActive
           /\ resp'.op = "skip"
                => /\ ~skipcd'[t][a]
                   /\ lock'[t] = a
           /\ resp'.op = "submit"
                => /\ annotations'[t] = 0
                   /\ lock'[t] = a
                   /\ active'[a].task_id = t ]_vars


\* the terminal statuses of a session row
Terminal == {"completed", "skipped"}

\* C28: a session row is created with status 'assigned', changes status at
\* most once, to 'completed' or 'skipped', and a row in 'completed' or
\* 'skipped' is never modified again by a request_task, submit or skip.
C28_SessionTerminal ==
  [][ /\ Len(sessions') >= Len(sessions)
      /\ \A i \in 1..Len(sessions) :
           IF sessions[i].status \in Terminal
           THEN sessions'[i] = sessions[i]
           ELSE sessions'[i].status \in Terminal \cup {"assigned"}
      /\ \A i \in (Len(sessions) + 1)..Len(sessions') :
           sessions'[i].status = "assigned" ]_vars


\* C29: FIFO with deferral.  Every script run of a request pops the head of
\* assignment_queue; the request is handed that task exactly when it is not
\* disabled, not in the caller's cooldown and not locked, so the task a
\* request returns is the first such task in queue order, every task popped
\* before it having been a conflict.  A popped task in cooldown or locked is
\* re-appended at the tail, behind every other queued task; the tasks not
\* popped keep their places relative to each other.
C29_FifoWithDeferral ==
  [][ \A p \in Procs :
        (proc[p].pc = "rq_script" /\ proc'[p] # proc[p] /\ rqueue # <<>>)
          => LET a == proc[p].agent
                 t == Head(rqueue)
                 disabled == gskips[t] >= K_disable
                 conflict == skipcd[t][a] \/ lock[t] # None
             IN /\ proc'[p].pc = "rq_meta" <=> (~disabled /\ ~conflict)
                /\ proc'[p].pc = "rq_meta"
                     => /\ proc'[p].task = t
                        /\ lock'[t] = a
                        /\ rqueue' = Tail(rqueue)
                /\ (~disabled /\ conflict)
                     => /\ rqueue' = Append(Tail(rqueue), t)
                        /\ lock' = lock
                /\ SubSeq(rqueue', 1, Len(rqueue) - 1) = Tail(rqueue) ]_vars

\* a request was handed the second task of the queue after its first script
\* run deferred the head, which another agent holds and which is now at the
\* tail
C29_Witness ==
  \E p \in Procs :
    /\ proc[p].pc = "rq_meta"
    /\ proc[p].attempt = 1
    /\ rqueue # <<>>
    /\ rqueue[Len(rqueue)] # proc[p].task
    /\ lock[rqueue[Len(rqueue)]] \notin {None, proc[p].agent}
    /\ lock[proc[p].task] = proc[p].agent


\* C30: a task id appears at most once in assignment_queue, in every
\* reachable state.
C30_NoDuplicateInQueue ==
  \A i, j \in 1..Len(rqueue) : i # j => rqueue[i] # rqueue[j]


\* C23: lock expiry is a working liveness mechanism.  When the first agent
\* holds Lock(T) and never submits or skips, Lock(T) eventually leaves it;
\* with T unlabeled and not disabled and the reconciler running, T is
\* eventually in assignment_queue with no lock, and a request_task of the
\* other agent, which has no cooldown on T, is eventually handed T.
C23_LockExpiryLiveness ==
  /\ (lock[FirstTask] = FirstAgent) ~> (lock[FirstTask] # FirstAgent)
  /\ (lock[FirstTask] = FirstAgent)
       ~> (\/ lock[FirstTask] = None /\ InSeq(FirstTask, rqueue)
           \/ lock[FirstTask] = OtherAgent)
  /\ (lock[FirstTask] = FirstAgent)
       ~> ( /\ resp.op = "request" /\ resp.status = 200
            /\ resp.agent = OtherAgent /\ resp.task = FirstTask )

\* the other agent has just been handed the task the first agent held and
\* never finished: the first agent's row is still 'assigned', its lock gone
C23_Witness ==
  /\ resp.op = "request" /\ resp.status = 200 /\ resp.detail = "assigned"
  /\ resp.agent = OtherAgent /\ resp.task = FirstTask
  /\ lock[FirstTask] = OtherAgent
  /\ AssignedIds(FirstAgent, FirstTask) # {}
  /\ annotations[FirstTask] = 0


\* C31: once a submit has added T to completed_tasks (which it does as it
\* returns), T is not in assignment_queue: no reconciliation re-adds it, not
\* even one that fetched its task list before the submit and finishes after.
C31_CompletedNotQueued ==
  \A t \in completed_tasks : ~InSeq(t, rqueue)


\* the ids of the 'assigned' rows of (a, t) among rows
AssignedAmong(rows, a, t) ==
  {i \in 1..Len(rows) : /\ rows[i].agent_id = a
                        /\ rows[i].task_id = t
                        /\ rows[i].status = "assigned"}

\* the step in which a submit deletes Lock(T)
SubmitReleases(p) ==
  proc[p].pc = "sb_del_lock" /\ proc'[p].pc = "sb_del_active"

\* forward, then ledger, then release: a submit deletes Lock(T) only when
\* Label Studio holds the annotation and no row of (A, T) is 'assigned'
ReleaseIsLast ==
  \A p \in Procs :
    SubmitReleases(p) => /\ annotations[proc[p].task] > 0
                         /\ AssignedIds(proc[p].agent, proc[p].task) = {}

\* a task that is locked is handed to nobody but its holder
LockedNotHandedOn ==
  (resp'.op = "request" /\ resp'.status = 200 /\ lock'[resp'.task] # None)
    => lock'[resp'.task] = resp'.agent

C33_BoundedRetry ==
  /\ [](\A p \in Procs : proc[p].pc \in RequestPcs
                            => proc[p].attempt < max_attempts)
  /\ [][\A p \in Procs :
         ( /\ proc[p].pc = "rq_script"
           /\ proc[p].attempt + 1 = max_attempts
           /\ proc'[p] # proc[p]
           /\ proc'[p].pc # "rq_meta" ) => proc'[p].pc = "idle"]_vars
  /\ \A p \in Procs :
       (proc[p].pc \in RequestPcs) ~> (proc[p].pc = "idle")

\* a call has run the script 49 times, each time re-appending the one queued
\* task, locked by another agent, and is about to run it for the 50th time
C33_Witness ==
  \E p \in Procs :
    /\ proc[p].pc = "rq_script"
    /\ proc[p].attempt = max_attempts - 1
    /\ rqueue # <<>>
    /\ \A i \in 1..Len(rqueue) :
         lock[rqueue[i]] \notin {None, proc[p].agent}


\* handler p goes on with a task the script locked for it
Handed(p, t) == proc'[p].pc = "rq_meta" /\ proc'[p].task = t
\* handler p got no task from the script: it loops or answers 404
NotHanded(p) == proc'[p].pc \in {"rq_llen", "idle"}

C35_CounterHasTtl ==
  \A t \in Tasks :
    gskips[t] > 0 =>
      \/ gttl[t]
      \/ \E p \in Procs : proc[p].pc = "sk_expire" /\ proc[p].task = t


RECURSIVE CompletedSeconds(_, _)
\* sum(s.duration_seconds) over the first n rows that belong to agent a,
\* are 'completed' and have a duration
CompletedSeconds(a, n) ==
  IF n = 0 THEN 0
  ELSE CompletedSeconds(a, n - 1) +
       (IF /\ sessions[n].agent_id = a
           /\ sessions[n].status = "completed"
           /\ sessions[n].duration_seconds # None
        THEN sessions[n].duration_seconds ELSE 0)

\* C36: the aggregates can be recomputed from the sessions: for every agent
\* total_duration_seconds is the sum of duration_seconds over its
\* 'completed' rows and total_earnings is that sum / 60 * 0.45 (earnings in
\* units of 1/6000: 45 per second).
C36_AggregatesRecomputable ==
  \A a \in Agents :
    /\ agent_stats[a].total_duration_seconds
         = CompletedSeconds(a, Len(sessions))
    /\ agent_stats[a].total_earnings
         = CompletedSeconds(a, Len(sessions)) * 45


\* the step in which a submit or a skip of handler p deletes Lock(T)
Releases(p) ==
  \/ proc[p].pc = "sb_del_lock" /\ proc'[p].pc = "sb_del_active"
  \/ proc[p].pc = "sk_del_lock" /\ proc'[p].pc = "sk_del_active"

\* C37: submit(A, T) and skip(A, T) delete Lock(T) only when it is absent or
\* its value is A: never a lock that another agent acquired after the
\* ownership check.
C37_DeleteOwnLockOnly ==
  [][ \A p \in Procs :
        Releases(p) => lock[proc[p].task] \in {None, proc[p].agent} ]_vars


\* the tenures of task t so far: every assignment inserts one session row
Tenures(t) == Cardinality({i \in 1..Len(sessions) : sessions[i].task_id = t})

\* the highest value the skip counter of task t starts with
InitialSkipsAtMost(t) == IF t = FirstTask THEN K_disable - 1 ELSE 0

\* C38: one tenure ends in at most one effective skip or submit, so the skip
\* counter of T grows by at most 1 per tenure, however the holder repeats
\* or overlaps its calls: the counter never exceeds what it started with
\* plus the number of tenures of T.
C38_OneSkipPerTenure ==
  \A t \in Tasks : gskips[t] <= InitialSkipsAtMost(t) + Tenures(t)


\* agent a could be handed task t: not disabled, not locked, not in a's
\* cooldown
Eligible(t, a) ==
  /\ gskips[t] < K_disable
  /\ lock[t] = None
  /\ ~skipcd[t][a]

\* C39: no false exhaustion.  With one call at a time, a request_task(A) that
\* finds in assignment_queue a task that is not disabled, not locked and not
\* in A's cooldown does not end in 'all tasks are locked or recently
\* skipped', however many conflicting tasks are queued before that task.
\* (Nothing but the call's own script runs touches the queue during the
\* call, so the queue of its last script run holds the eligible tasks it
\* held when the call began.)
C39_NoFalseExhaustion ==
  [][ (resp'.op = "request" /\ resp'.detail = "exhausted")
        => ~\E i \in 1..Len(rqueue) : Eligible(rqueue[i], resp'.agent) ]_vars


\* C40: while Label Studio, Redis and PostgreSQL all answer, no request_task
\* call ends in an internal error (500), also when the refill from the
\* memory queue runs more than once in a call or in two calls at once.
C40_RequestNeverFails ==
  ~(resp.op = "request" /\ resp.status = 500)

====
